---- MODULE Spec2Model ----
(***************************************************************************)
(* Bill Splitter (src/project/src/App.tsx): the session state of the App   *)
(* component, its event handlers, the asynchronous processImage call and   *)
(* the price extraction it runs on the recognised text.                    *)
(*                                                                         *)
(* Amounts are integer cents (parseFloat of a token with at most two       *)
(* decimals is exact at that scale); texts are sequences of one-character  *)
(* strings; shares are exact rationals <<numerator, denominator>>.         *)
(***************************************************************************)
EXTENDS Bags, FiniteSets, Integers, Sequences, TLC

VARIABLES
    isProcessing,   \* useState(false), line 18
    items,          \* useState<BillItem[]>([]), line 19
    people,         \* useState<Person[]>, lines 20-23
    error,          \* useState<string | null>(null), line 24
    imagePreview,   \* useState<string | null>(null), line 25
    calls,          \* bag of processImage calls suspended at an await
    readers,        \* bag of files whose FileReader has not fired onload yet
    events,         \* number of user events (clicks, edits, file selections) so far
    itemsFrom,      \* history: name of the file the items on display came from
    sinceClear      \* history: clearAll has run and no file was selected since

vars == <<isProcessing, items, people, error, imagePreview, calls, readers, events,
          itemsFrom, sinceClear>>

(***************************************************************************)
(* Bounds of the exploration.                                              *)
(***************************************************************************)
MaxEvents == 4      \* user events explored in one session, specification Spec
DeepEvents == 6     \* the same, specification SpecDeep
LiveEvents == 3     \* the same, specification SpecLive
ExtractEvents == 2  \* the same, specification SpecExtract
FileEvents == 3     \* the same, specification SpecFiles

null == "null"

(***************************************************************************)
(* Characters and strings.                                                 *)
(***************************************************************************)
Digits == <<"0", "1", "2", "3", "4", "5", "6", "7", "8", "9">>

IsDigit(c) == \E i \in 1..10 : Digits[i] = c

DigitValue(c) == (CHOOSE i \in 1..10 : Digits[i] = c) - 1

\* the characters String.prototype.trim and the regex class \s remove
IsSpace(c) == c \in {" ", "\t", "\r", "\n", "\f"}

RECURSIVE toString(_)
toString(n) ==
    IF n < 10 THEN Digits[n + 1]
    ELSE toString(n \div 10) \o Digits[(n % 10) + 1]

(***************************************************************************)
(* The records of lines 5-15.                                              *)
(***************************************************************************)
Person(id, name) == [id |-> id, name |-> name]

BillItem(description, amount, includedInSplit, assignedTo) ==
    [ description |-> description,
      amount |-> amount,
      includedInSplit |-> includedInSplit,
      assignedTo |-> assignedTo ]

(***************************************************************************)
(* Array helpers.                                                          *)
(***************************************************************************)
includes(s, x) == \E i \in 1..Len(s) : s[i] = x

ids(ps) == [i \in 1..Len(ps) |-> ps[i].id]

(***************************************************************************)
(* Price extraction, processImage lines 62-80.                             *)
(***************************************************************************)
NoMatch == <<"no match">>

\* text.split('\n')
RECURSIVE split(_, _)
split(text, cur) ==
    IF text = <<>> THEN <<cur>>
    ELSE IF Head(text) = "\n" THEN <<cur>> \o split(Tail(text), <<>>)
    ELSE split(Tail(text), Append(cur, Head(text)))

RECURSIVE trimStart(_)
trimStart(s) ==
    IF s # <<>> /\ IsSpace(Head(s)) THEN trimStart(Tail(s)) ELSE s

RECURSIVE trimEnd(_)
trimEnd(s) ==
    IF s # <<>> /\ IsSpace(s[Len(s)]) THEN trimEnd(SubSeq(s, 1, Len(s) - 1)) ELSE s

trim(s) == trimEnd(trimStart(s))

AllDigits(s) == Len(s) >= 1 /\ \A i \in 1..Len(s) : IsDigit(s[i])

\* \d+(?:\.\d{2})? matching the whole of s
IsNumberToken(s) ==
    \/ AllDigits(s)
    \/ /\ Len(s) >= 4
       /\ s[Len(s) - 2] = "."
       /\ AllDigits(SubSeq(s, 1, Len(s) - 3))
       /\ AllDigits(SubSeq(s, Len(s) - 1, Len(s)))

\* [$]?\s*(\d+(?:\.\d{2})?)$ tried at position start: the capture, or NoMatch
matchAt(line, start) ==
    LET afterDollar == IF start <= Len(line) /\ line[start] = "$"
                       THEN start + 1 ELSE start
        rest == trimStart(SubSeq(line, afterDollar, Len(line)))
    IN  IF IsNumberToken(rest) THEN rest ELSE NoMatch

\* trimmedLine.match(/(?:[$]?\s*(\d+(?:\.\d{2})?))$/): the leftmost position
\* at which the pattern matches decides the capture
RECURSIVE priceMatch(_, _)
priceMatch(line, start) ==
    IF start > Len(line) THEN NoMatch
    ELSE IF matchAt(line, start) # NoMatch THEN matchAt(line, start)
    ELSE priceMatch(line, start + 1)

RECURSIVE digitsValue(_)
digitsValue(s) ==
    IF s = <<>> THEN 0
    ELSE 10 * digitsValue(SubSeq(s, 1, Len(s) - 1)) + DigitValue(s[Len(s)])

\* parseFloat(priceStr), in cents
parseFloat(s) ==
    IF AllDigits(s) THEN 100 * digitsValue(s)
    ELSE 100 * digitsValue(SubSeq(s, 1, Len(s) - 3))
         + digitsValue(SubSeq(s, Len(s) - 1, Len(s)))

MinPrice == 50        \* 0.50
MaxPrice == 100000    \* 1000

\* line 74 with > in place of >=
priceInRangeStrict(price) == price > MinPrice /\ price <= MaxPrice

priceInRange(price) == price >= MinPrice /\ price <= MaxPrice

\* the loop of lines 65-80 over the lines left to read
RECURSIVE collectPrices(_)
collectPrices(lines) ==
    IF lines = <<>> THEN <<>>
    ELSE LET trimmedLine == trim(Head(lines))
             priceStr == priceMatch(trimmedLine, 1)
             keep == /\ priceStr # NoMatch
                     /\ parseFloat(priceStr) > 0
                     /\ priceInRange(parseFloat(priceStr))
         IN  (IF keep THEN <<priceStr>> ELSE <<>>) \o collectPrices(Tail(lines))

extractPrices(text) == collectPrices(split(text, <<>>))

(***************************************************************************)
(* Inputs: the files the user can select and the texts the OCR engine can  *)
(* return for an image.                                                    *)
(***************************************************************************)
Files ==
    { [name |-> "receipt.png", type |-> <<"i", "m", "a", "g", "e", "/", "p", "n", "g">>],
      [name |-> "notes.txt", type |-> <<"t", "e", "x", "t", "/", "p", "l", "a", "i", "n">>] }

\* the same with a second image to tell two uploads apart
TwoImages ==
    Files \cup { [name |-> "lunch.jpg", type |-> <<"i", "m", "a", "g", "e", "/", "j", "p", "e", "g">>] }

startsWith(s, prefix) ==
    Len(s) >= Len(prefix) /\ SubSeq(s, 1, Len(prefix)) = prefix

\* file.type.startsWith('image/')
isImageType(type) == startsWith(type, <<"i", "m", "a", "g", "e", "/">>)

\* e.target.result of readAsDataURL(file)
dataURL(file) == "data:" \o file.name

TextNoPrice == <<"T", "h", "a", "n", "k", "s", "\n", "1", "2", ".", "5", "0", " ", "U", "S", "D">>
TextOnePrice == <<"T", "a", "x", " ", "0", ".", "1", "0", "\n", "$", " ", "1", "2", ".", "0", "0", " ", "\n", "1", "5", "0", "0", ".", "0", "0">>
TextTwoSame == <<"T", "e", "a", " ", "3", ".", "5", "0", "\n", "\n", "T", "e", "a", " ", "3", ".", "5", "0">>
TextTwoPrices == <<"$", "7", "\n", "x", "\n", "A", " ", "3", ".", "5", "0">>

Texts == {TextNoPrice, TextOnePrice, TextTwoSame, TextTwoPrices}

\* amounts in cents: around both limits of line 74, and well inside and
\* outside them
SampleCents == {0, 1, 10, 49, 50, 51, 99, 100, 700, 1250, 99999, 100000, 100001, 150000}

RECURSIVE decimal(_)
decimal(n) ==
    IF n < 10 THEN <<Digits[n + 1]>>
    ELSE decimal(n \div 10) \o <<Digits[(n % 10) + 1]>>

\* the amount as a receipt prints it: dollars, a point, two digits of cents
printed(cents) ==
    decimal(cents \div 100) \o <<".">>
        \o <<Digits[((cents % 100) \div 10) + 1], Digits[(cents % 10) + 1]>>

Layouts == {"bare", "label", "dollar", "spaced", "whole"}

\* a line of recognised text that ends in the price of one amount
priceLine(cents, layout) ==
    CASE layout = "bare" -> printed(cents)
      [] layout = "label" -> <<"T", "e", "a", " ">> \o printed(cents)
      [] layout = "dollar" -> <<"$">> \o printed(cents)
      [] layout = "spaced" ->
            <<" ", "T", "e", "a", " ", "2", " ", "$", " ">> \o printed(cents) \o <<" ">>
      [] layout = "whole" ->
            IF cents % 100 = 0 THEN <<"$">> \o decimal(cents \div 100)
            ELSE <<"x", "\t">> \o printed(cents) \o <<"\r">>

priceLines == [cents \in SampleCents, layout \in Layouts |-> priceLine(cents, layout)]

PriceLines == {priceLines[cents, layout] : cents \in SampleCents, layout \in Layouts}

\* lines on which the amount carries a minus sign
NegativeLines ==
    { <<"-", "5", ".", "0", "0">>,
      <<"D", "i", "s", "c", "o", "u", "n", "t", " ", "-", "5", ".", "0", "0">> }

ExtractTexts == PriceLines \cup NegativeLines

\* lines 62-80 run on each of the texts, worked out once per text
recognisedPrices == [text \in Texts \cup ExtractTexts |-> extractPrices(text)]

(***************************************************************************)
(* Messages of setError.                                                   *)
(***************************************************************************)
NoPricesFound == "No prices found in the receipt. Please ensure the image is clear and contains dollar amounts."
OcrFailure == "An error occurred while processing the image. Please try again."
InvalidFileType == "Selected file is not an image. Please choose an image file."

(***************************************************************************)
(* Initial state: the useState initialisers of lines 18-25.                *)
(***************************************************************************)
Init ==
    /\ isProcessing = FALSE
    /\ items = <<>>
    /\ people = <<Person("1", "Person 1"), Person("2", "Person 2")>>
    /\ error = null
    /\ imagePreview = null
    /\ calls = EmptyBag
    /\ readers = EmptyBag
    /\ events = 0
    /\ itemsFrom = null
    /\ sinceClear = FALSE

(***************************************************************************)
(* People.                                                                 *)
(***************************************************************************)
newPersonId(ps) == toString(Len(ps) + 1)

addPerson ==
    /\ LET newId == newPersonId(people)
       IN  people' = Append(people, Person(newId, "Person " \o newId))
    /\ UNCHANGED <<isProcessing, items, error, imagePreview, calls, readers>>
    /\ UNCHANGED <<itemsFrom, sinceClear>>

removeAllowed(ps) == Len(ps) > 2

withoutPerson(ps, id) == SelectSeq(ps, LAMBDA p : p.id # id)

withoutId(assignedTo, id) == SelectSeq(assignedTo, LAMBDA personId : personId # id)

prunedItems(its, id) ==
    [i \in 1..Len(its) |-> [its[i] EXCEPT !.assignedTo = withoutId(its[i].assignedTo, id)]]

removePerson(id) ==
    /\ IF removeAllowed(people)
       THEN /\ people' = withoutPerson(people, id)
            /\ items' = prunedItems(items, id)
       ELSE UNCHANGED <<people, items>>
    /\ UNCHANGED <<isProcessing, error, imagePreview, calls, readers>>
    /\ UNCHANGED <<itemsFrom, sinceClear>>

NewNames == {"Ann"}

updatePersonName(id, newName) ==
    /\ people' = [i \in 1..Len(people) |->
                    IF people[i].id = id THEN [people[i] EXCEPT !.name = newName]
                    ELSE people[i]]
    /\ UNCHANGED <<isProcessing, items, error, imagePreview, calls, readers>>
    /\ UNCHANGED <<itemsFrom, sinceClear>>

(***************************************************************************)
(* processImage, lines 47-101.  A call runs to its next await in one step; *)
(* the people it reads at line 87 are those of the render whose            *)
(* handleFileUpload started it, kept in the call as peopleIds.             *)
(***************************************************************************)
one(x) == SetToBag({x})

inFlight == BagCardinality(calls)

\* lines 48-57: up to `await createWorker('eng')`
processImage(file) ==
    /\ isProcessing' = TRUE
    /\ error' = null
    /\ readers' = readers (+) one(file)
    /\ calls' = calls (+) one([pc |-> "createWorker", file |-> file,
                               peopleIds |-> ids(people)])
    /\ sinceClear' = FALSE
    /\ UNCHANGED <<items, people, imagePreview, itemsFrom>>

\* handleFileUpload without the type test of line 105
handleFileUploadUnchecked(file) ==
    processImage(file)

\* lines 103-112; the inputs of lines 215-231 carry no disabled attribute
handleFileUpload(file) ==
    IF isImageType(file.type)
    THEN processImage(file)
    ELSE /\ error' = InvalidFileType
         /\ sinceClear' = FALSE
         /\ UNCHANGED <<isProcessing, items, people, imagePreview, calls, readers>>
         /\ UNCHANGED itemsFrom

\* reader.onload, lines 52-54
readerOnload(file) ==
    /\ BagIn(file, readers)
    /\ imagePreview' = dataURL(file)
    /\ readers' = readers (-) one(file)
    /\ UNCHANGED <<isProcessing, items, people, error, calls, itemsFrom, sinceClear>>

\* line 57 resolves: on to `await worker.recognize(file)`, line 59
createWorkerResolves(call) ==
    /\ BagIn(call, calls)
    /\ call.pc = "createWorker"
    /\ calls' = (calls (-) one(call)) (+) one([call EXCEPT !.pc = "recognize"])
    /\ UNCHANGED <<isProcessing, items, people, error, imagePreview, readers>>
    /\ UNCHANGED <<itemsFrom, sinceClear>>

\* lines 83-88
newItems(prices, peopleIds) ==
    [index \in 1..Len(prices) |->
        BillItem("Item " \o toString(index), parseFloat(prices[index]), TRUE, peopleIds)]

\* recognizeResolves merging the new items into the list on display
recognizeResolvesMerging(call, text) ==
    /\ BagIn(call, calls)
    /\ call.pc = "recognize"
    /\ calls' = (calls (-) one(call)) (+) one([call EXCEPT !.pc = "terminate"])
    /\ LET prices == recognisedPrices[text]
       IN  IF Len(prices) > 0
           THEN /\ items' = items \o newItems(prices, call.peopleIds)
                /\ itemsFrom' = call.file.name
                /\ UNCHANGED error
           ELSE /\ error' = NoPricesFound
                /\ UNCHANGED <<items, itemsFrom>>
    /\ UNCHANGED <<isProcessing, people, imagePreview, readers, sinceClear>>

\* recognizeResolves without the else branch of lines 91-93
recognizeResolvesSilent(call, text) ==
    /\ BagIn(call, calls)
    /\ call.pc = "recognize"
    /\ calls' = (calls (-) one(call)) (+) one([call EXCEPT !.pc = "terminate"])
    /\ LET prices == recognisedPrices[text]
       IN  IF Len(prices) > 0
           THEN /\ items' = newItems(prices, call.peopleIds)
                /\ itemsFrom' = call.file.name
                /\ UNCHANGED error
           ELSE UNCHANGED <<error, items, itemsFrom>>
    /\ UNCHANGED <<isProcessing, people, imagePreview, readers, sinceClear>>

\* recognizeResolves calling setItems(prices.map(...)) whatever prices holds
recognizeResolvesClearing(call, text) ==
    /\ BagIn(call, calls)
    /\ call.pc = "recognize"
    /\ calls' = (calls (-) one(call)) (+) one([call EXCEPT !.pc = "terminate"])
    /\ LET prices == recognisedPrices[text]
       IN  /\ items' = newItems(prices, call.peopleIds)
           /\ itemsFrom' = IF Len(prices) > 0 THEN call.file.name ELSE null
           /\ IF Len(prices) > 0 THEN UNCHANGED error ELSE error' = NoPricesFound
    /\ UNCHANGED <<isProcessing, people, imagePreview, readers, sinceClear>>

\* line 59 resolves with text: lines 60-95, up to `await worker.terminate()`
recognizeResolves(call, text) ==
    /\ BagIn(call, calls)
    /\ call.pc = "recognize"
    /\ calls' = (calls (-) one(call)) (+) one([call EXCEPT !.pc = "terminate"])
    /\ LET prices == recognisedPrices[text]
       IN  IF Len(prices) > 0
           THEN /\ items' = newItems(prices, call.peopleIds)
                /\ itemsFrom' = call.file.name
                /\ UNCHANGED error
           ELSE /\ error' = NoPricesFound
                /\ UNCHANGED <<items, itemsFrom>>
    /\ UNCHANGED <<isProcessing, people, imagePreview, readers, sinceClear>>

\* line 95 resolves: line 100
terminateResolves(call) ==
    /\ BagIn(call, calls)
    /\ call.pc = "terminate"
    /\ isProcessing' = FALSE
    /\ calls' = calls (-) one(call)
    /\ UNCHANGED <<items, people, error, imagePreview, readers, itemsFrom, sinceClear>>

\* awaitRejects with setIsProcessing(false) inside the try block, after line 95
awaitRejectsStuck(call) ==
    /\ BagIn(call, calls)
    /\ error' = OcrFailure
    /\ calls' = calls (-) one(call)
    /\ UNCHANGED <<isProcessing, items, people, imagePreview, readers>>
    /\ UNCHANGED <<itemsFrom, sinceClear>>

\* any of the awaits of lines 57, 59, 95 rejects: lines 96-100
awaitRejects(call) ==
    /\ BagIn(call, calls)
    /\ error' = OcrFailure
    /\ isProcessing' = FALSE
    /\ calls' = calls (-) one(call)
    /\ UNCHANGED <<items, people, imagePreview, readers, itemsFrom, sinceClear>>

(***************************************************************************)
(* The items table, rendered when items.length > 0 (line 259).             *)
(***************************************************************************)
toggled(assignedTo, personId) ==
    IF includes(assignedTo, personId)
    THEN IF Len(assignedTo) > 1 THEN withoutId(assignedTo, personId) ELSE assignedTo
    ELSE Append(assignedTo, personId)

\* lines 141-152
toggleItemAssignment(itemIndex, personId) ==
    /\ items' = [items EXCEPT ![itemIndex].assignedTo = toggled(@, personId)]
    /\ UNCHANGED <<isProcessing, people, error, imagePreview, calls, readers>>
    /\ UNCHANGED <<itemsFrom, sinceClear>>

\* the checkbox onChange of lines 278-282
setIncluded(index, checked) ==
    /\ items' = [items EXCEPT ![index].includedInSplit = checked]
    /\ UNCHANGED <<isProcessing, people, error, imagePreview, calls, readers>>
    /\ UNCHANGED <<itemsFrom, sinceClear>>

NewDescriptions == {"Tip"}

\* the description onChange of lines 290-294
setDescription(index, value) ==
    /\ items' = [items EXCEPT ![index].description = value]
    /\ UNCHANGED <<isProcessing, people, error, imagePreview, calls, readers>>
    /\ UNCHANGED <<itemsFrom, sinceClear>>

\* lines 154-158
clearAll ==
    /\ items' = <<>>
    /\ imagePreview' = null
    /\ error' = null
    /\ itemsFrom' = null
    /\ sinceClear' = TRUE
    /\ UNCHANGED <<isProcessing, people, calls, readers>>

(***************************************************************************)
(* Split calculator, lines 120-130.  A share is an exact rational          *)
(* <<numerator, denominator>> in lowest terms, in cents; a denominator of  *)
(* 0 is what a division by zero leaves: <<1, 0>> for Infinity and <<0, 0>> *)
(* for NaN.                                                                *)
(***************************************************************************)
RECURSIVE gcd(_, _)
gcd(a, b) == IF b = 0 THEN a ELSE gcd(b, a % b)

ratio(n, d) == LET g == gcd(n, d) IN IF g = 0 THEN <<n, d>> ELSE <<n \div g, d \div g>>

ratAdd(a, b) == ratio(a[1] * b[2] + b[1] * a[2], a[2] * b[2])

RECURSIVE calculateTotalOf(_)
calculateTotalOf(its) ==
    IF its = <<>> THEN 0
    ELSE (IF Head(its).includedInSplit THEN Head(its).amount ELSE 0)
         + calculateTotalOf(Tail(its))

calculateTotal == calculateTotalOf(items)

\* calculatePerPerson filtering on includedInSplit alone
RECURSIVE calculatePerPersonOfIncluded(_, _)
calculatePerPersonOfIncluded(its, personId) ==
    IF its = <<>> THEN <<0, 1>>
    ELSE LET item == Head(its)
             rest == calculatePerPersonOfIncluded(Tail(its), personId)
         IN  IF item.includedInSplit
             THEN ratAdd(ratio(item.amount, Len(item.assignedTo)), rest)
             ELSE rest

RECURSIVE calculatePerPersonOf(_, _)
calculatePerPersonOf(its, personId) ==
    IF its = <<>> THEN <<0, 1>>
    ELSE LET item == Head(its)
             rest == calculatePerPersonOf(Tail(its), personId)
         IN  IF item.includedInSplit /\ includes(item.assignedTo, personId)
             THEN ratAdd(ratio(item.amount, Len(item.assignedTo)), rest)
             ELSE rest

calculatePerPerson(personId) == calculatePerPersonOf(items, personId)

(***************************************************************************)
(* What the rendered page lets happen next.                                *)
(***************************************************************************)
\* one more user event, while the session's budget lasts
UserEvent(maxEvents) == events < maxEvents /\ events' = events + 1

PendingCalls == BagToSet(calls)

\* the items table and its controls are rendered, line 259
tableShown == Len(items) > 0

NextWith(files, texts, maxEvents) ==
    \/ UserEvent(maxEvents) /\ addPerson
    \/ \E i \in 1..Len(people) :
          UserEvent(maxEvents) /\ removePerson(people[i].id)
    \/ \E i \in 1..Len(people), newName \in NewNames :
          UserEvent(maxEvents) /\ updatePersonName(people[i].id, newName)
    \/ \E file \in files :
          UserEvent(maxEvents) /\ handleFileUpload(file)
    \/ \E itemIndex \in 1..Len(items), i \in 1..Len(people) :
          UserEvent(maxEvents) /\ tableShown
          /\ toggleItemAssignment(itemIndex, people[i].id)
    \/ \E index \in 1..Len(items) :
          UserEvent(maxEvents) /\ tableShown
          /\ setIncluded(index, ~items[index].includedInSplit)
    \/ \E index \in 1..Len(items), value \in NewDescriptions :
          UserEvent(maxEvents) /\ tableShown /\ setDescription(index, value)
    \/ UserEvent(maxEvents) /\ tableShown /\ clearAll
    \/ \E file \in BagToSet(readers) :
          readerOnload(file) /\ UNCHANGED events
    \/ \E call \in PendingCalls :
          createWorkerResolves(call) /\ UNCHANGED events
    \/ \E call \in PendingCalls, text \in texts :
          recognizeResolves(call, text) /\ UNCHANGED events
    \/ \E call \in PendingCalls :
          terminateResolves(call) /\ UNCHANGED events
    \/ \E call \in PendingCalls :
          awaitRejects(call) /\ UNCHANGED events

Next == NextWith(Files, Texts, MaxEvents)

Spec == Init /\ [][Next]_vars

\* longer sessions over the receipts with a single price
NextDeep == NextWith(Files, {TextOnePrice}, DeepEvents)

SpecDeep == Init /\ [][NextDeep]_vars

\* sessions over two images, with and without a price
NextFiles == NextWith(TwoImages, {TextOnePrice, TextNoPrice}, FileEvents)

SpecFiles == Init /\ [][NextFiles]_vars

\* short sessions over one-line receipts of every sample amount and layout
NextExtract == NextWith(Files, ExtractTexts, ExtractEvents)

SpecExtract == Init /\ [][NextExtract]_vars

(***************************************************************************)
(* Sessions in which every pending await of a call settles: the promises   *)
(* of lines 57, 59 and 95 resolve or reject, and the continuation runs.    *)
(***************************************************************************)
OcrSettles ==
    \E call \in PendingCalls :
       /\ \/ createWorkerResolves(call)
          \/ \E text \in Texts : recognizeResolves(call, text)
          \/ terminateResolves(call)
          \/ awaitRejects(call)
       /\ UNCHANGED events

NextLive == NextWith(Files, Texts, LiveEvents)

SpecLive == Init /\ [][NextLive]_vars /\ WF_vars(OcrSettles)

(***************************************************************************)
(* Properties.                                                             *)
(***************************************************************************)
elements(s) == {s[i] : i \in 1..Len(s)}

\* the amounts, in cents, on the price lines of each receipt of Texts, read
\* off the receipts by hand
expectedAmounts(text) ==
    CASE text = TextNoPrice -> <<>>
      [] text = TextOnePrice -> <<1200>>
      [] text = TextTwoSame -> <<350, 350>>
      [] text = TextTwoPrices -> <<700, 350>>

itemLabels == <<"Item 1", "Item 2">>

atTerminate == \E call \in PendingCalls : call.pc = "terminate"

\* C1: no two entries of the people list have the same id.
C1_UniqueIds ==
    \A i, j \in 1..Len(people) : i # j => people[i].id # people[j].id

\* C2: the people list always holds at least two entries, and while it holds
\* exactly two no step removes anyone from it.
C2_TwoPersonFloor ==
    [][ /\ Len(people') >= 2
        /\ Len(people) = 2 => elements(ids(people)) \subseteq elements(ids(people')) ]_vars

RECURSIVE sumOfShares(_)
sumOfShares(ps) ==
    IF ps = <<>> THEN <<0, 1>>
    ELSE ratAdd(calculatePerPerson(Head(ps).id), sumOfShares(Tail(ps)))

everyIncludedItemAssigned ==
    \A k \in 1..Len(items) : items[k].includedInSplit => items[k].assignedTo # <<>>

\* C3: when every included item has an assignee, the shares of the entries of
\* the people list add up to exactly the total.
C3_SharesSumToTotal ==
    everyIncludedItemAssigned => sumOfShares(people) = ratio(calculateTotal, 1)

\* C4: every item included in the split has at least one assignee.
C4_IncludedItemsAssigned == everyIncludedItemAssigned

C5_Post(itemIndex, personId) ==
    LET old == elements(items[itemIndex].assignedTo)
        new == elements(items'[itemIndex].assignedTo)
    IN  /\ people' = people
        /\ Len(items') = Len(items)
        /\ \A k \in 1..Len(items) : k # itemIndex => items'[k] = items[k]
        /\ items'[itemIndex] = [items[itemIndex] EXCEPT !.assignedTo = items'[itemIndex].assignedTo]
        /\ IF personId \notin old THEN new = old \cup {personId}
           ELSE IF Cardinality(old) > 1 THEN new = old \ {personId}
           ELSE items'[itemIndex] = items[itemIndex] /\ new # {}

\* C5: toggleItemAssignment(itemIndex, personId) removes personId from an item
\* with other assignees, leaves an item whose sole assignee is personId as it
\* is, adds personId when it is not assigned, and changes nothing else.
C5_ToggleAssignment ==
    [][ \A itemIndex \in 1..Len(items), i \in 1..Len(people) :
          toggleItemAssignment(itemIndex, people[i].id)
              => C5_Post(itemIndex, people[i].id) ]_vars

\* C6: at most one processImage call is in flight.
C6_OneOcrInFlight == inFlight <= 1

\* C7: the items a successful extraction builds are assigned to the people
\* that exist when the recognised text is turned into items.
C7_AssignedToCurrentPeople ==
    [][ \A call \in PendingCalls, text \in Texts :
          (recognizeResolves(call, text) /\ expectedAmounts(text) # <<>>)
              => \A k \in 1..Len(items') : items'[k].assignedTo = ids(people) ]_vars

\* C8: a recognised text with k >= 1 price lines replaces the whole item list
\* by k items in line order: 'Item i', the i-th amount, included in the split.
C8_ItemsReplaced ==
    [][ \A call \in PendingCalls, text \in Texts :
          (recognizeResolves(call, text) /\ expectedAmounts(text) # <<>>)
              => /\ Len(items') = Len(expectedAmounts(text))
                 /\ \A k \in 1..Len(items') :
                      /\ items'[k].description = itemLabels[k]
                      /\ items'[k].amount = expectedAmounts(text)[k]
                      /\ items'[k].includedInSplit ]_vars

\* a second upload has just put two items with the same amount on display
C8_Witness ==
    /\ atTerminate
    /\ events >= 2
    /\ Len(items) = 2
    /\ items[1].amount = 350 /\ items[2].amount = 350
    /\ items[1].description = "Item 1" /\ items[2].description = "Item 2"

\* C9: a recognised text without a price line sets the NoPricesFound message
\* and leaves the item list exactly as it was.
C9_NoPricesKeepsItems ==
    [][ \A call \in PendingCalls, text \in Texts :
          (recognizeResolves(call, text) /\ expectedAmounts(text) = <<>>)
              => error' = NoPricesFound /\ items' = items ]_vars

\* the message is up next to an item the user had excluded before
C9_Witness ==
    /\ atTerminate
    /\ error = NoPricesFound
    /\ items # <<>>
    /\ ~items[1].includedInSplit

\* C10, as claimed: a recognised text without a price line sets the
\* NoPricesFound message and leaves an empty item list.
C10_NoPricesEmptiesItems ==
    [][ \A call \in PendingCalls, text \in Texts :
          (recognizeResolves(call, text) /\ expectedAmounts(text) = <<>>)
              => error' = NoPricesFound /\ items' = <<>> ]_vars

\* C10, amended: a recognised text without a price line sets the
\* NoPricesFound message, and the item list is empty afterwards exactly when
\* it was empty before.
C10_NoPricesEmptyOnlyIfEmpty ==
    [][ \A call \in PendingCalls, text \in Texts :
          (recognizeResolves(call, text) /\ expectedAmounts(text) = <<>>)
              => error' = NoPricesFound /\ (items' = <<>> <=> items = <<>>) ]_vars

\* the message is up while the items of an earlier upload are still shown
C10_Witness ==
    /\ inFlight = 1
    /\ atTerminate
    /\ error = NoPricesFound
    /\ Len(items) = 2
    /\ imagePreview # null

\* the files of Files whose type is not an image type, picked by name
nonImages == {file \in Files : file.name = "notes.txt"}

\* C11: selecting a file that is not an image sets the error to the
\* InvalidFileType message and starts no OCR: the processing flag, the items,
\* the people and the preview are unchanged, no call is added to the calls in
\* flight and no FileReader is started.
C11_NonImageRejected ==
    [][\A file \in nonImages :
          handleFileUpload(file) =>
             /\ error' = InvalidFileType
             /\ isProcessing' = isProcessing
             /\ items' = items
             /\ people' = people
             /\ imagePreview' = imagePreview
             /\ calls' = calls
             /\ readers' = readers]_vars

\* a text file was selected as the first event of a session: the message is
\* up and nothing is in flight
C11_Witness ==
    /\ error = InvalidFileType
    /\ events = 1
    /\ inFlight = 0
    /\ readers = EmptyBag
    /\ ~isProcessing

C13_ClearAllStaysCleared ==
    [][/\ clearAll =>
             /\ items' = <<>>
             /\ imagePreview' = null
             /\ error' = null
             /\ people' = people
       /\ sinceClear' =>
             /\ items' = <<>>
             /\ imagePreview' = null
             /\ error' = null]_vars

\* the positions of s that hold x
positionsOf(s, x) == {k \in 1..Len(s) : s[k] = x}

\* C14: removePerson(id), when the people list has more than two entries,
\* removes exactly the person clicked, the one with that id, from the people
\* list and keeps the others in order; it removes id from the assignedTo of
\* every item and keeps every other assignee; and it leaves each item's
\* description, amount and includedInSplit as they are.
C14_RemoveExactlyThatPerson ==
    [][\A i \in 1..Len(people) :
          (removeAllowed(people) /\ removePerson(people[i].id)) =>
             LET id == people[i].id
             IN  /\ people' = SubSeq(people, 1, i - 1) \o SubSeq(people, i + 1, Len(people))
                 /\ Len(items') = Len(items)
                 /\ \A k \in 1..Len(items) :
                       /\ items'[k].description = items[k].description
                       /\ items'[k].amount = items[k].amount
                       /\ items'[k].includedInSplit = items[k].includedInSplit
                       /\ positionsOf(items'[k].assignedTo, id) = {}
                       /\ \A other \in elements(items[k].assignedTo) \ {id} :
                             Cardinality(positionsOf(items'[k].assignedTo, other))
                                = Cardinality(positionsOf(items[k].assignedTo, other))]_vars

\* C15: with amounts in cents, a line that ends in a well-formed price of
\* amount a produces an item, of amount a, exactly when 50 <= a <= 100000;
\* otherwise the line produces nothing; and every amount in the item list
\* lies between 50 and 100000, so none is negative.
C15_PriceRange ==
    [][\A call \in PendingCalls, cents \in SampleCents, layout \in Layouts :
          recognizeResolves(call, priceLines[cents, layout]) =>
             /\ IF 50 <= cents /\ cents <= 100000
                THEN /\ Len(items') = 1
                     /\ items'[1].amount = cents
                ELSE /\ items' = items
                     /\ error' = NoPricesFound
             /\ \A k \in 1..Len(items') :
                   /\ items'[k].amount >= 0
                   /\ items'[k].amount >= 50
                   /\ items'[k].amount <= 100000]_vars

\* a receipt of 0.50 or of 1000.00 has produced its item, and a second
\* receipt, with an amount outside the limits, has been turned down
C15_Witness ==
    /\ Len(items) = 1
    /\ items[1].amount \in {50, 100000}
    /\ error = NoPricesFound
    /\ events = 2

\* C16: an amount with a minus sign never matches: a receipt whose only line
\* is '-5.00' or 'Discount -5.00' produces no item; the items stay as they
\* were and the NoPricesFound message is set.
C16_NegativeNeverMatches ==
    [][\A call \in PendingCalls, line \in NegativeLines :
          recognizeResolves(call, line) =>
             /\ items' = items
             /\ error' = NoPricesFound]_vars

\* the items that have at least one assignee
assignedItems == SelectSeq(items, LAMBDA item : item.assignedTo # <<>>)

\* C17: calculatePerPerson never divides by zero: every person's share is a
\* finite number, and an included item whose assignedTo is empty adds nothing
\* to it, so that the share is the same as over the items with an assignee.
C17_NoDivisionByZero ==
    \A i \in 1..Len(people) :
       LET share == calculatePerPerson(people[i].id)
       IN  /\ share[2] # 0
           /\ share = calculatePerPersonOf(assignedItems, people[i].id)

\* an included item has lost its last assignee while another item still has
\* one, whose share is worked out and is not zero
C17_Witness ==
    /\ \E k \in 1..Len(items) : items[k].includedInSplit /\ items[k].assignedTo = <<>>
    /\ \E i \in 1..Len(people) :
          /\ calculatePerPerson(people[i].id)[1] > 0
          /\ calculatePerPerson(people[i].id)[2] > 0

\* C18: every id in the assignedTo of any item is the id of a person in the
\* people list: no item is assigned to a person who has been removed.
C18_AssigneesArePeople ==
    \A k \in 1..Len(items) :
       \A personId \in elements(items[k].assignedTo) :
          \E i \in 1..Len(people) : people[i].id = personId

\* C19: the processing flag is set exactly when a processImage call is in
\* flight, started and not yet at its end.
C19_FlagIffInFlight == isProcessing <=> inFlight > 0

\* C20: whenever no processImage call is in flight and both a preview and a
\* non-empty item list are on display, the items were extracted from the
\* image shown in the preview: items of an earlier upload are never shown
\* next to the preview of a later one.
C20_ItemsFromPreviewedImage ==
    (inFlight = 0 /\ imagePreview # null /\ Len(items) > 0)
        => \E file \in TwoImages :
              file.name = itemsFrom /\ imagePreview = dataURL(file)

====
